---- MODULE Spec2Model ----
(***************************************************************************)
(* fetchWithBackoff of src/App.jsx (DocBotPage, lines 419-438, and its     *)
(* verbatim copy in PredictionPage, lines 705-724), modelled as a state    *)
(* machine.  Each invocation is an async call: it is suspended at every    *)
(* `await` (the fetch, the setTimeout promise) and the event loop runs the *)
(* other invocations meanwhile.  Everything between two awaits is one      *)
(* atomic step.                                                            *)
(***************************************************************************)
EXTENDS Integers, Sequences, FiniteSets, TLC

\* Largest retry budget (`retries`) the model passes to fetchWithBackoff.
MaxRetries == 3

\* The invocations that may be in flight together: the call of handleSend
\* (line 479) and the call of handlePrediction (line 753).
Invocations == {"chat", "prediction"}

\* Values of the `retries` argument.  0 is a legal argument: the loop body
\* never runs and the async function completes with undefined.
RetryChoices == 0..MaxRetries

\* Values of the `delay` argument (1000 is the default).
DelayChoices == {1000, 250}

\* HTTP statuses the transport may answer with.
Statuses == {200, 429, 500}

VARIABLES
    pc,         \* where each invocation is suspended
    retries,    \* the `retries` parameter
    delay,      \* the `delay` parameter (a local, reassigned by `delay *= 2`)
    i,          \* the loop index
    result,     \* how the async function settled, and with what
    delay0,     \* history: the `delay` argument as passed
    requests,   \* history: number of fetch() calls issued
    outcomes,   \* history: what each fetch() settled with, in order
    waits       \* history: the setTimeout durations, in order

vars == <<pc, retries, delay, i, result, delay0, requests, outcomes, waits>>

----------------------------------------------------------------------------
(* The application around the two copies: App (lines 1081-1179), DocBotPage  *)
(* (handleSend, lines 440-510) and PredictionPage (handlePrediction, lines   *)
(* 727-788).  A handler awaits fetchWithBackoff as a whole: what the call    *)
(* makes of its fetches' outcomes is RunAlone (PredRunAlone) above.          *)

\* Largest number of handlePrediction calls in one behaviour.
MaxPredictions == 2

\* retries = 3, delay = 1000: the defaults, which both handlers rely on.
DefaultRetries == 3
DefaultDelay == 1000

Null == "null"
\* The handleSend calls that pass the guard, in the order they are made.
Sends == {1, 2}

\* Contents of the chat input; " " stands for any blank text.
Texts == {"", " ", "hi"}

\* One of suggestedQuestions.
Question == "What is hypertension?"

Symptoms == {"Fever"}

\* What VITE_FIREBASE_CONFIG may hold, and whether the SDK accepts it.
Configs == {"missing", "invalidJson", "noApiKey", "noAppId", "sdkThrows", "valid"}

VARIABLES
    appPhase,           \* App: how far the initialization effect got
    db, auth, appId,    \* App state: handles and appId, or Null
    userId,             \* App state
    authReady,          \* App state
    isMounted,          \* the effect's isMounted flag
    currentMessage,     \* DocBotPage state
    isTyping,           \* DocBotPage state
    chatHistory,        \* DocBotPage state: number of messages in the last snapshot
    chatDocs,           \* the docbot_chat collection: the documents stored
    sendPc,             \* where each handleSend call is suspended
    sendLog,            \* history: the events of each handleSend call, in order
    selectedSymptoms,   \* PredictionPage state
    predictionResult,   \* PredictionPage state
    isLoading,          \* PredictionPage state
    predPc,             \* where the handlePrediction call is suspended
    predCanSave,        \* db && userId && appId as the running call's closure has them
    predLog,            \* history: the events of the current handlePrediction call
    predCalls,          \* history: number of handlePrediction calls made
    historyDocs         \* the symptom_history collection: number of records stored

appVars == <<appPhase, db, auth, appId, userId, authReady, isMounted>>
chatVars == <<currentMessage, isTyping, chatHistory, chatDocs, sendPc, sendLog>>
predVars == <<selectedSymptoms, predictionResult, isLoading, predPc, predCanSave,
              predLog, predCalls, historyDocs>>
flowVars == <<appVars, chatVars, predVars>>
allVars == <<vars, flowVars>>

\* useState initial values (lines 378-380, 673-677, 1083-1087).
FlowInit ==
    /\ appPhase = "start"
    /\ db = Null /\ auth = Null /\ appId = Null /\ userId = Null
    /\ authReady = FALSE
    /\ isMounted = TRUE
    /\ currentMessage = ""
    /\ isTyping = FALSE
    /\ chatHistory = 0
    /\ chatDocs = {}
    /\ sendPc = [s \in Sends |-> "idle"]
    /\ sendLog = [s \in Sends |-> << >>]
    /\ selectedSymptoms = {}
    /\ predictionResult = [kind |-> "null", message |-> [text |-> "", status |-> 0]]
    /\ isLoading = FALSE
    /\ predPc = "idle"
    /\ predCanSave = FALSE
    /\ predLog = << >>
    /\ predCalls = 0
    /\ historyDocs = 0

----------------------------------------------------------------------------
(* Values *)

\* A Response object; `attempt` identifies which fetch() produced it.
Response(status, attempt) ==
    [kind |-> "Response", status |-> status, attempt |-> attempt]

\* What fetch() rejects with on a transport failure.
TransportError(attempt) ==
    [kind |-> "TypeError", status |-> 0, attempt |-> attempt]

\* Mutant of StatusError: the message does not mention the status.
StatusErrorNoStatus(response) ==
    [kind |-> "Error", status |-> 0, attempt |-> response.attempt]

\* new Error(`API returned status ${response.status}`)
StatusError(response) ==
    [kind |-> "Error", status |-> response.status, attempt |-> response.attempt]

\* The properties a caller can read from a thrown object.  An Error built at
\* line 430 has its message (prefix and status); a rejection of fetch() has
\* the transport's message.  (`attempt` above is a history tag telling the
\* objects of different attempts apart, not a property of the object.)
ErrorProperties(error) ==
    IF error.kind = "Error"
    THEN [message |-> [text |-> "API returned status", status |-> error.status]]
    ELSE [message |-> [text |-> "Failed to fetch", status |-> 0]]

NoValue == [kind |-> "none", status |-> 0, attempt |-> 0]

Pending == [how |-> "pending", value |-> NoValue]
Returned(response) == [how |-> "returned", value |-> response]
Raised(error) == [how |-> "raised", value |-> error]
\* The async function runs off its end: the promise resolves with undefined.
Undefined == [how |-> "undefined", value |-> NoValue]

----------------------------------------------------------------------------
(* The conditions and expressions of the loop *)

\* for (...; i < retries; ...)
LoopCond(idx, n) == idx < n

\* Mutant of ResponseOk: no upper bound.
ResponseOkNoUpper(status) == status >= 200

\* Mutant of ResponseOk: the lower bound is exclusive.
ResponseOkExclusive(status) == status > 200 /\ status <= 299

\* response.ok
ResponseOk(status) == status >= 200 /\ status <= 299

\* Mutant of RetryOn429: the last attempt is not exempted.
RetryOn429Always(status, idx, n) == status = 429

\* response.status === 429 && i < retries - 1
RetryOn429(status, idx, n) == status = 429 /\ idx < n - 1

\* Mutant of LastAttempt: off by one.
LastAttemptOffByOne(idx, n) == idx = n

\* Mutant of LastAttempt: gives up one attempt early.
LastAttemptEarly(idx, n) == idx >= n - 2

\* Mutant of LastAttempt: the catch block never rethrows.
LastAttemptNever(idx, n) == FALSE

\* i === retries - 1
LastAttempt(idx, n) == idx = n - 1

\* Mutant of NextIndex: the index is not advanced.
NextIndexStuck(idx) == idx

\* i++ (the loop's update, run after `continue` and at the end of the body)
NextIndex(idx) == idx + 1

\* Mutant of Backoff: the delay does not grow.
BackoffConstant(d) == d

\* Mutant of Backoff: the delay is tripled.
BackoffTriple(d) == d * 3

\* delay *= 2  (the value assigned)
Backoff(d) == d * 2

\* Mutant of SetDelay: `delay` is one variable shared by all invocations.
SetDelayShared(inv, d) == delay' = [x \in Invocations |-> d]

\* `delay` is a parameter: assigning it changes this invocation's copy.
SetDelay(inv, d) == delay' = [delay EXCEPT ![inv] = d]

----------------------------------------------------------------------------
Init ==
    /\ pc = [inv \in Invocations |-> "idle"]
    /\ retries = [inv \in Invocations |-> 0]
    /\ delay = [inv \in Invocations |-> 0]
    /\ i = [inv \in Invocations |-> 0]
    /\ result = [inv \in Invocations |-> Pending]
    /\ delay0 = [inv \in Invocations |-> 0]
    /\ requests = [inv \in Invocations |-> 0]
    /\ outcomes = [inv \in Invocations |-> << >>]
    /\ waits = [inv \in Invocations |-> << >>]
    /\ FlowInit

\* fetchWithBackoff(url, options, n, d) is called: parameters bound, i = 0.
Call(inv) ==
    /\ pc[inv] = "idle"
    /\ UNCHANGED flowVars
    /\ \E n \in RetryChoices, d \in DelayChoices :
        /\ retries' = [retries EXCEPT ![inv] = n]
        /\ delay' = [delay EXCEPT ![inv] = d]
        /\ delay0' = [delay0 EXCEPT ![inv] = d]
    /\ i' = [i EXCEPT ![inv] = 0]
    /\ pc' = [pc EXCEPT ![inv] = "loop"]
    /\ UNCHANGED <<result, requests, outcomes, waits>>

\* Mutant of IssueRequest: the backoff wait of another invocation blocks it.
IssueRequestBlockedByWait(inv) ==
    /\ pc[inv] = "loop"
    /\ UNCHANGED flowVars
    /\ LoopCond(i[inv], retries[inv])
    /\ requests[inv] <= MaxRetries
    /\ \A other \in Invocations \ {inv} : pc[other] \notin {"wait429", "waitCatch"}
    /\ requests' = [requests EXCEPT ![inv] = @ + 1]
    /\ pc' = [pc EXCEPT ![inv] = "fetching"]
    /\ UNCHANGED <<retries, delay, i, result, delay0, outcomes, waits>>

\* The loop test passes and fetch(url, options) is called and awaited.
\* (requests is capped one above the largest budget: a history counter.)
IssueRequest(inv) ==
    /\ pc[inv] = "loop"
    /\ UNCHANGED flowVars
    /\ LoopCond(i[inv], retries[inv])
    /\ requests[inv] <= MaxRetries
    /\ requests' = [requests EXCEPT ![inv] = @ + 1]
    /\ pc' = [pc EXCEPT ![inv] = "fetching"]
    /\ UNCHANGED <<retries, delay, i, result, delay0, outcomes, waits>>

\* The loop test fails: the function body ends without return or throw.
LoopExit(inv) ==
    /\ pc[inv] = "loop"
    /\ UNCHANGED flowVars
    /\ ~LoopCond(i[inv], retries[inv])
    /\ result' = [result EXCEPT ![inv] = Undefined]
    /\ pc' = [pc EXCEPT ![inv] = "done"]
    /\ UNCHANGED <<retries, delay, i, delay0, requests, outcomes, waits>>

\* return response
Return(inv, response) ==
    /\ result' = [result EXCEPT ![inv] = Returned(response)]
    /\ pc' = [pc EXCEPT ![inv] = "done"]
    /\ UNCHANGED <<retries, delay, i, delay0, requests, waits>>

\* await new Promise(resolve => setTimeout(resolve, delay)): the timer is
\* started with the current delay and the invocation is suspended at `at`.
StartWait(inv, at) ==
    /\ waits' = [waits EXCEPT ![inv] = Append(@, delay[inv])]
    /\ pc' = [pc EXCEPT ![inv] = at]
    /\ UNCHANGED <<retries, delay, i, result, delay0, requests>>

\* catch (error) { if (i === retries - 1) throw error; await ...timer... }
Catch(inv, error) ==
    IF LastAttempt(i[inv], retries[inv])
    THEN /\ result' = [result EXCEPT ![inv] = Raised(error)]
         /\ pc' = [pc EXCEPT ![inv] = "done"]
         /\ UNCHANGED <<retries, delay, i, delay0, requests, waits>>
    ELSE StartWait(inv, "waitCatch")

\* fetch() resolves with a Response; the try block runs up to its next await.
FetchResolves(inv) ==
    /\ pc[inv] = "fetching"
    /\ UNCHANGED flowVars
    /\ \E status \in Statuses :
        LET response == Response(status, requests[inv]) IN
        /\ outcomes' = [outcomes EXCEPT ![inv] = Append(@, response)]
        /\ IF ResponseOk(status)
           THEN Return(inv, response)
           ELSE IF RetryOn429(status, i[inv], retries[inv])
                THEN StartWait(inv, "wait429")
                ELSE Catch(inv, StatusError(response))

\* fetch() rejects (network failure): control enters the catch block.
FetchRejects(inv) ==
    /\ pc[inv] = "fetching"
    /\ UNCHANGED flowVars
    /\ LET error == TransportError(requests[inv]) IN
        /\ outcomes' = [outcomes EXCEPT ![inv] = Append(@, error)]
        /\ Catch(inv, error)

\* The timer of the 429 branch fires: delay *= 2; continue (then i++).
Timer429Fires(inv) ==
    /\ pc[inv] = "wait429"
    /\ UNCHANGED flowVars
    /\ SetDelay(inv, Backoff(delay[inv]))
    /\ i' = [i EXCEPT ![inv] = NextIndex(@)]
    /\ pc' = [pc EXCEPT ![inv] = "loop"]
    /\ UNCHANGED <<retries, result, delay0, requests, outcomes, waits>>

\* The timer of the catch block fires: delay *= 2; end of body (then i++).
TimerCatchFires(inv) ==
    /\ pc[inv] = "waitCatch"
    /\ UNCHANGED flowVars
    /\ SetDelay(inv, Backoff(delay[inv]))
    /\ i' = [i EXCEPT ![inv] = NextIndex(@)]
    /\ pc' = [pc EXCEPT ![inv] = "loop"]
    /\ UNCHANGED <<retries, result, delay0, requests, outcomes, waits>>

\* One step of a running invocation.
Step(inv) ==
    \/ IssueRequest(inv)
    \/ LoopExit(inv)
    \/ FetchResolves(inv)
    \/ FetchRejects(inv)
    \/ Timer429Fires(inv)
    \/ TimerCatchFires(inv)

Next ==
    \E inv \in Invocations :
        \/ Call(inv)
        \/ IssueRequest(inv)
        \/ LoopExit(inv)
        \/ FetchResolves(inv)
        \/ FetchRejects(inv)
        \/ Timer429Fires(inv)
        \/ TimerCatchFires(inv)

Spec == Init /\ [][Next]_vars

\* Every pending promise settles: a fetch resolves or rejects, a timer fires,
\* and the event loop runs each continuation that is ready.
FairSpec == Spec /\ \A inv \in Invocations : WF_vars(Step(inv))

----------------------------------------------------------------------------
(* The same function run alone, as a function of what its fetches settle    *)
(* with: the locals of a lone invocation with budget n that is at the loop  *)
(* test with index idx and delay d, has consumed k of the outcomes `outs`   *)
(* and has waited `ws`, taken to its next suspension at fetch() or its end. *)
RECURSIVE Alone(_, _, _, _, _, _)
Alone(n, idx, d, outs, k, ws) ==
    IF ~LoopCond(idx, n)
    THEN [pc |-> "done", i |-> idx, delay |-> d, requests |-> k,
          waits |-> ws, result |-> Undefined]
    ELSE IF k = Len(outs)
    THEN [pc |-> "fetching", i |-> idx, delay |-> d, requests |-> k + 1,
          waits |-> ws, result |-> Pending]
    ELSE LET o == outs[k + 1] IN
         IF o.kind = "Response" /\ ResponseOk(o.status)
         THEN [pc |-> "done", i |-> idx, delay |-> d, requests |-> k + 1,
               waits |-> ws, result |-> Returned(o)]
         ELSE IF o.kind = "Response" /\ RetryOn429(o.status, idx, n)
         THEN Alone(n, NextIndex(idx), Backoff(d), outs, k + 1, Append(ws, d))
         ELSE IF LastAttempt(idx, n)
         THEN [pc |-> "done", i |-> idx, delay |-> d, requests |-> k + 1,
               waits |-> ws,
               result |-> Raised(IF o.kind = "Response" THEN StatusError(o) ELSE o)]
         ELSE Alone(n, NextIndex(idx), Backoff(d), outs, k + 1, Append(ws, d))

\* fetchWithBackoff(url, options, n, d) against the outcomes `outs`.
RunAlone(n, d, outs) == Alone(n, 0, d, outs, 0, << >>)

\* The locals and history of an invocation, in the shape RunAlone gives.
Locals(inv) ==
    [pc |-> pc[inv], i |-> i[inv], delay |-> delay[inv], requests |-> requests[inv],
     waits |-> waits[inv], result |-> result[inv]]

----------------------------------------------------------------------------
(* The copy of fetchWithBackoff in PredictionPage (lines 705-724), translated *)
(* on its own, run alone against the outcomes `outs`.                         *)

\* for (...; i < retries; ...)
PredLoopCond(idx, n) == idx < n

\* response.ok
PredResponseOk(status) == status >= 200 /\ status <= 299

\* response.status === 429 && i < retries - 1
PredRetryOn429(status, idx, n) == status = 429 /\ idx < n - 1

\* i === retries - 1
PredLastAttempt(idx, n) == idx = n - 1

\* i++
PredNextIndex(idx) == idx + 1

\* delay *= 2
PredBackoff(d) == d * 2

\* new Error(`API returned status ${response.status}`)
PredStatusError(response) ==
    [kind |-> "Error", status |-> response.status, attempt |-> response.attempt]

RECURSIVE PredAlone(_, _, _, _, _, _)
PredAlone(n, idx, d, outs, k, ws) ==
    IF ~PredLoopCond(idx, n)
    THEN [pc |-> "done", i |-> idx, delay |-> d, requests |-> k,
          waits |-> ws, result |-> Undefined]
    ELSE IF k = Len(outs)
    THEN [pc |-> "fetching", i |-> idx, delay |-> d, requests |-> k + 1,
          waits |-> ws, result |-> Pending]
    ELSE LET o == outs[k + 1] IN
         IF o.kind = "Response" /\ PredResponseOk(o.status)
         THEN [pc |-> "done", i |-> idx, delay |-> d, requests |-> k + 1,
               waits |-> ws, result |-> Returned(o)]
         ELSE IF o.kind = "Response" /\ PredRetryOn429(o.status, idx, n)
         THEN PredAlone(n, PredNextIndex(idx), PredBackoff(d), outs, k + 1, Append(ws, d))
         ELSE IF PredLastAttempt(idx, n)
         THEN [pc |-> "done", i |-> idx, delay |-> d, requests |-> k + 1,
               waits |-> ws,
               result |-> Raised(IF o.kind = "Response" THEN PredStatusError(o) ELSE o)]
         ELSE PredAlone(n, PredNextIndex(idx), PredBackoff(d), outs, k + 1, Append(ws, d))

\* PredictionPage's fetchWithBackoff(url, options, n, d) against `outs`.
PredRunAlone(n, d, outs) == PredAlone(n, 0, d, outs, 0, << >>)

----------------------------------------------------------------------------
(* App: the initialization effect (lines 1093-1179) *)

\* Mutant of AppInitialize: the early returns set authReady like the catch.
AppInitializeReturnsReady ==
    /\ appPhase = "start"
    /\ \E config \in Configs :
        CASE config \in {"missing", "noApiKey", "noAppId"} ->
                /\ appPhase' = "hung"
                /\ authReady' = TRUE
                /\ UNCHANGED <<db, auth, appId>>
          [] config \in {"invalidJson", "sdkThrows"} ->
                /\ appPhase' = "failed"
                /\ authReady' = TRUE
                /\ UNCHANGED <<db, auth, appId>>
          [] config = "valid" ->
                /\ appPhase' = "listening"
                /\ db' = "firestore"
                /\ auth' = "auth"
                /\ appId' = "app"
                /\ UNCHANGED authReady
    /\ UNCHANGED <<userId, isMounted, chatVars, predVars, vars>>

\* The effect runs once after the first render, with the configuration found.
AppInitialize ==
    /\ appPhase = "start"
    /\ \E config \in Configs :
        CASE config \in {"missing", "noApiKey", "noAppId"} ->
                \* the three early returns (lines 1107-1124)
                /\ appPhase' = "hung"
                /\ UNCHANGED <<db, auth, appId, authReady>>
          [] config \in {"invalidJson", "sdkThrows"} ->
                \* JSON.parse, initializeApp, getFirestore or getAuth throws:
                \* the overall catch (line 1175)
                /\ appPhase' = "failed"
                /\ authReady' = (IF isMounted THEN TRUE ELSE authReady)
                /\ UNCHANGED <<db, auth, appId>>
          [] config = "valid" ->
                \* handles created and stored, sign-in started, listener set
                /\ appPhase' = "listening"
                /\ db' = (IF isMounted THEN "firestore" ELSE db)
                /\ auth' = (IF isMounted THEN "auth" ELSE auth)
                /\ appId' = (IF isMounted THEN "app" ELSE appId)
                /\ UNCHANGED authReady
    /\ UNCHANGED <<userId, isMounted, chatVars, predVars, vars>>

\* Mutant of AuthStateChanged: authReady is set only for a signed-in user.
AuthStateChangedOnlySignedIn ==
    /\ appPhase = "listening"
    /\ \E user \in {Null, "uid"} :
        IF ~isMounted
        THEN UNCHANGED <<userId, authReady>>
        ELSE /\ userId' = user
             /\ authReady' = (IF user # Null THEN TRUE ELSE authReady)
    /\ UNCHANGED <<appPhase, db, auth, appId, isMounted, chatVars, predVars, vars>>

\* The onAuthStateChanged callback (lines 1159-1171) runs with a user or null.
AuthStateChanged ==
    /\ appPhase = "listening"
    /\ \E user \in {Null, "uid"} :
        IF ~isMounted
        THEN UNCHANGED <<userId, authReady>>
        ELSE /\ userId' = user
             /\ authReady' = TRUE
    /\ UNCHANGED <<appPhase, db, auth, appId, isMounted, chatVars, predVars, vars>>

\* Mutant of AppUnmount: unmounting resets authReady.
AppUnmountResetsReady ==
    /\ isMounted
    /\ appPhase # "start"
    /\ isMounted' = FALSE
    /\ authReady' = FALSE
    /\ UNCHANGED <<appPhase, db, auth, appId, userId, chatVars, predVars, vars>>

\* The effect's cleanup (line 1178): App is unmounted, and its pages with it.
AppUnmount ==
    /\ isMounted
    /\ appPhase # "start"
    /\ isMounted' = FALSE
    /\ UNCHANGED <<appPhase, db, auth, appId, userId, authReady, chatVars, predVars, vars>>

----------------------------------------------------------------------------
(* DocBotPage *)

\* message.trim()
Trim(t) == IF t = " " THEN "" ELSE t

\* Mutant of SendGuard: userId is not checked.
SendGuardNoUser(message) ==
    /\ Trim(message) # ""
    /\ ~isTyping
    /\ db # Null /\ appId # Null

\* The negation of the early return of line 443.
SendGuard(message) ==
    /\ Trim(message) # ""
    /\ ~isTyping
    /\ db # Null /\ userId # Null /\ appId # Null

\* The send button is not disabled (line 598).
SendButtonEnabled == ~(isTyping \/ Trim(currentMessage) = "" \/ ~authReady)

\* The input is not disabled (line 594).
InputEnabled == ~(isTyping \/ ~authReady)

\* The suggested questions are rendered (line 545).
SuggestionsShown == chatHistory = 0 /\ ~isTyping

\* The chat listener is subscribed (line 398).
ChatListening == authReady /\ userId # Null /\ db # Null /\ appId # Null

SendEvent(s, events) == sendLog' = [sendLog EXCEPT ![s] = @ \o events]
SendGoto(s, at) == sendPc' = [sendPc EXCEPT ![s] = at]

\* onChange of the input (line 590).
TypeMessage ==
    /\ isMounted /\ InputEnabled
    /\ \E t \in Texts : t # currentMessage /\ currentMessage' = t
    /\ UNCHANGED <<isTyping, chatHistory, chatDocs, sendPc, sendLog, appVars, predVars, vars>>

\* handleSend(messageText), lines 441-458: the s-th call that passes the guard
\* clears the input and starts the write of the user's message.
HandleSend(s, messageText) ==
    LET message == IF messageText \in Texts \cup {Question}
                   THEN messageText ELSE currentMessage IN
    /\ sendPc[s] = "idle"
    /\ \A t \in Sends : t < s => sendPc[t] # "idle"
    /\ SendGuard(message)
    /\ currentMessage' = ""
    /\ SendGoto(s, "writingUser")
    /\ SendEvent(s, <<"userWrite">>)
    /\ UNCHANGED <<isTyping, chatHistory, chatDocs, appVars, predVars, vars>>

\* onClick of the send button (line 597).
ClickSend(s) == isMounted /\ SendButtonEnabled /\ HandleSend(s, Null)

\* Enter in the input (line 591).
PressEnter(s) == isMounted /\ InputEnabled /\ HandleSend(s, Null)

\* onClick of a suggested question (line 563).
ClickSuggestion(s) == isMounted /\ SuggestionsShown /\ HandleSend(s, Question)

\* Mutant of UserWriteResolves: the request is sent before the write is awaited
\* (the write's result is not waited for).
UserWriteNotAwaited(s) ==
    /\ sendPc[s] = "writingUser"
    /\ isTyping' = TRUE
    /\ SendGoto(s, "fetching")
    /\ SendEvent(s, <<"request", "userStored">>)
    /\ chatDocs' = chatDocs \cup {[send |-> s, role |-> "user"]}
    /\ UNCHANGED <<currentMessage, chatHistory, appVars, predVars, vars>>

\* The write of the user's message resolves (line 453); setIsTyping(true);
\* fetchWithBackoff is called and issues its first request (lines 460-483).
UserWriteResolves(s) ==
    /\ sendPc[s] = "writingUser"
    /\ chatDocs' = chatDocs \cup {[send |-> s, role |-> "user"]}
    /\ isTyping' = TRUE
    /\ SendGoto(s, "fetching")
    /\ SendEvent(s, <<"userStored", "request">>)
    /\ UNCHANGED <<currentMessage, chatHistory, appVars, predVars, vars>>

\* Mutant of UserWriteRejects: the rejection is handled by the catch.
UserWriteRejectsCaught(s) ==
    /\ sendPc[s] = "writingUser"
    /\ sendPc' = [sendPc EXCEPT ![s] = "writingError"]
    /\ sendLog' = [sendLog EXCEPT ![s] = @ \o <<"userFailed", "errorWrite">>]
    /\ UNCHANGED <<currentMessage, isTyping, chatHistory, chatDocs, appVars, predVars, vars>>

\* The write of the user's message rejects: handleSend rejects there.
UserWriteRejects(s) ==
    /\ sendPc[s] = "writingUser"
    /\ SendGoto(s, "done")
    /\ SendEvent(s, <<"userFailed", "rejected">>)
    /\ UNCHANGED <<currentMessage, isTyping, chatHistory, chatDocs, appVars, predVars, vars>>

\* The outcome sequences fetchWithBackoff can consume with the default budget.
OutcomeSeqs ==
    UNION {[1..n -> Statuses \cup {0}] : n \in 1..DefaultRetries}

\* The outcomes as objects: 0 stands for a rejected fetch.
AsOutcomes(f) ==
    [k \in DOMAIN f |-> IF f[k] = 0 THEN TransportError(k) ELSE Response(f[k], k)]

\* The ways the call of line 479 can end: RunAlone on every sequence of
\* outcomes that it consumes to its end.
ChatCallResults ==
    {RunAlone(DefaultRetries, DefaultDelay, AsOutcomes(f)).result : f \in
        {g \in OutcomeSeqs :
            LET r == RunAlone(DefaultRetries, DefaultDelay, AsOutcomes(g)) IN
            r.pc = "done" /\ r.requests = Len(g)}}

\* Mutant of SendCatch: the error is logged and nothing is written.
SendCatchSilent(s, events) ==
    /\ SendGoto(s, "done")
    /\ SendEvent(s, events \o <<"fulfilled">>)
    /\ isTyping' = FALSE
    /\ UNCHANGED <<currentMessage, chatHistory, chatDocs, appVars, predVars, vars>>

\* catch (lines 497-506): the write of the 'ai_error' message is started.
SendCatch(s, events) ==
    /\ SendGoto(s, "writingError")
    /\ SendEvent(s, events \o <<"errorWrite">>)
    /\ UNCHANGED <<currentMessage, isTyping, chatHistory, chatDocs, appVars, predVars, vars>>

\* The awaited fetchWithBackoff settles (line 479).  A returned response is
\* parsed next (line 485); an error, or the TypeError of reading .json of
\* undefined, goes to the catch.
SendCallSettles(s) ==
    /\ sendPc[s] = "fetching"
    /\ \E res \in ChatCallResults :
        CASE res.how = "returned" ->
                /\ SendGoto(s, "parsing")
                /\ SendEvent(s, <<"returned">>)
                /\ UNCHANGED <<currentMessage, isTyping, chatHistory, chatDocs,
                               appVars, predVars, vars>>
          [] res.how = "raised" -> SendCatch(s, <<"raised">>)
          [] OTHER -> SendCatch(s, <<"undefined", "parseFailed">>)

\* response.json() resolves; aiText is the candidate text or the apology; the
\* write of the 'ai' message is started (lines 485-495).
SendBodyResolves(s) ==
    /\ sendPc[s] = "parsing"
    /\ SendGoto(s, "writingAi")
    /\ SendEvent(s, <<"aiWrite">>)
    /\ UNCHANGED <<currentMessage, isTyping, chatHistory, chatDocs, appVars, predVars, vars>>

\* response.json() rejects (the body is not JSON).
SendBodyRejects(s) ==
    /\ sendPc[s] = "parsing"
    /\ SendCatch(s, <<"parseFailed">>)

\* Mutant of SendFinally: the flag is not reset.
SendFinallyKeepsTyping(s, events, how) ==
    /\ UNCHANGED isTyping
    /\ SendGoto(s, "done")
    /\ SendEvent(s, events \o <<how>>)

\* finally (line 508), and the end of handleSend with `how`.
SendFinally(s, events, how) ==
    /\ isTyping' = FALSE
    /\ SendGoto(s, "done")
    /\ SendEvent(s, events \o <<how>>)

\* The write of the 'ai' message resolves.
AiWriteResolves(s) ==
    /\ sendPc[s] = "writingAi"
    /\ chatDocs' = chatDocs \cup {[send |-> s, role |-> "ai"]}
    /\ SendFinally(s, <<"aiStored">>, "fulfilled")
    /\ UNCHANGED <<currentMessage, chatHistory, appVars, predVars, vars>>

\* The write of the 'ai' message rejects: the catch runs.
AiWriteRejects(s) ==
    /\ sendPc[s] = "writingAi"
    /\ SendCatch(s, <<"aiFailed">>)

\* The write of the 'ai_error' message resolves.
ErrorWriteResolves(s) ==
    /\ sendPc[s] = "writingError"
    /\ chatDocs' = chatDocs \cup {[send |-> s, role |-> "ai_error"]}
    /\ SendFinally(s, <<"errorStored">>, "fulfilled")
    /\ UNCHANGED <<currentMessage, chatHistory, appVars, predVars, vars>>

\* The write of the 'ai_error' message rejects inside the catch: finally
\* runs and handleSend rejects with the write's error.
ErrorWriteRejects(s) ==
    /\ sendPc[s] = "writingError"
    /\ SendFinally(s, <<"errorFailed">>, "rejected")
    /\ UNCHANGED <<currentMessage, chatHistory, chatDocs, appVars, predVars, vars>>

\* The onSnapshot callback (lines 405-407) delivers the collection.
SnapshotArrives ==
    /\ isMounted /\ ChatListening
    /\ chatHistory # Cardinality(chatDocs)
    /\ chatHistory' = Cardinality(chatDocs)
    /\ UNCHANGED <<currentMessage, isTyping, chatDocs, sendPc, sendLog, appVars, predVars, vars>>

----------------------------------------------------------------------------
(* PredictionPage *)

\* Values of predictionResult: null, the parsed prediction, {error: ...}.
NullResult == [kind |-> "null", message |-> [text |-> "", status |-> 0]]
ParsedResult == [kind |-> "parsed", message |-> [text |-> "", status |-> 0]]
\* { error: `Could not retrieve AI prediction. ${error.message}` }
ErrorResult(message) == [kind |-> "error", message |-> message]

Message(text) == [text |-> text, status |-> 0]

\* The prediction button is not disabled (line 951).
PredictButtonEnabled == ~(selectedSymptoms = {} \/ isLoading \/ ~authReady)

\* toggleSymptom (lines 791-797).
ToggleSymptom ==
    /\ isMounted
    /\ \E sym \in Symptoms :
        selectedSymptoms' = IF sym \in selectedSymptoms
                            THEN selectedSymptoms \ {sym}
                            ELSE selectedSymptoms \cup {sym}
    /\ UNCHANGED <<predictionResult, isLoading, predPc, predCanSave, predLog, predCalls,
                   historyDocs, appVars, chatVars, vars>>

\* clearSymptoms (line 799), behind its button (line 944).
ClearSymptoms ==
    /\ isMounted
    /\ ~(selectedSymptoms = {} \/ isLoading)
    /\ selectedSymptoms' = {}
    /\ UNCHANGED <<predictionResult, isLoading, predPc, predCanSave, predLog, predCalls,
                   historyDocs, appVars, chatVars, vars>>

\* handlePrediction, lines 727-757: with symptoms selected it sets isLoading,
\* clears the result and calls fetchWithBackoff, which issues its first
\* request.  Its closure holds db, userId and appId of the render it is from.
HandlePrediction ==
    /\ predPc \in {"idle", "done"}
    /\ predCalls < MaxPredictions
    /\ predCalls' = predCalls + 1
    /\ IF selectedSymptoms = {}
       THEN /\ predictionResult' = NullResult
            /\ predPc' = "done"
            /\ predLog' = <<"nothingSelected">>
            /\ UNCHANGED <<isLoading, predCanSave>>
       ELSE /\ isLoading' = TRUE
            /\ predictionResult' = NullResult
            /\ predCanSave' = (db # Null /\ userId # Null /\ appId # Null)
            /\ predPc' = "fetching"
            /\ predLog' = <<"request">>
    /\ UNCHANGED <<selectedSymptoms, historyDocs, appVars, chatVars, vars>>

\* onClick of the prediction button (line 950).
ClickPredict == isMounted /\ PredictButtonEnabled /\ HandlePrediction

\* The ways the call of line 753 can end: PredictionPage's copy, run on every
\* sequence of outcomes that it consumes to its end.
PredCallResults ==
    {PredRunAlone(DefaultRetries, DefaultDelay, AsOutcomes(f)).result : f \in
        {g \in OutcomeSeqs :
            LET r == PredRunAlone(DefaultRetries, DefaultDelay, AsOutcomes(g)) IN
            r.pc = "done" /\ r.requests = Len(g)}}

\* Mutant of PredFinally: isLoading is not reset.
PredFinallyKeepsLoading(events) ==
    /\ UNCHANGED isLoading
    /\ predPc' = "done"
    /\ predLog' = predLog \o events

\* finally (lines 785-787) and the end of the call.
PredFinally(events) ==
    /\ isLoading' = FALSE
    /\ predPc' = "done"
    /\ predLog' = predLog \o events

\* Mutant of PredCatch: the error is logged and the result left as it is.
PredCatchKeepsResult(events, message) ==
    /\ UNCHANGED predictionResult
    /\ PredFinally(events \o <<"error">>)
    /\ UNCHANGED <<selectedSymptoms, predCanSave, predCalls, historyDocs,
                   appVars, chatVars, vars>>

\* catch (lines 782-784), then finally.
PredCatch(events, message) ==
    /\ predictionResult' = ErrorResult(message)
    /\ PredFinally(events \o <<"error">>)
    /\ UNCHANGED <<selectedSymptoms, predCanSave, predCalls, historyDocs,
                   appVars, chatVars, vars>>

\* The awaited fetchWithBackoff settles (line 753).
PredCallSettles ==
    /\ predPc = "fetching"
    /\ \E res \in PredCallResults :
        CASE res.how = "returned" ->
                /\ predPc' = "parsing"
                /\ predLog' = Append(predLog, "returned")
                /\ UNCHANGED <<selectedSymptoms, predictionResult, isLoading, predCanSave,
                               predCalls, historyDocs, appVars, chatVars, vars>>
          [] res.how = "raised" ->
                PredCatch(<<"raised">>, ErrorProperties(res.value).message)
          [] OTHER ->
                PredCatch(<<"undefined", "bodyFailed">>,
                          Message("Cannot read properties of undefined"))

\* Mutant of PredStoreParsed: the history record is written whatever the
\* closure holds.
PredStoreParsedAlwaysSaves ==
    /\ predictionResult' = ParsedResult
    /\ predPc' = "writingHistory"
    /\ predLog' = predLog \o <<"parsed", "historyWrite">>
    /\ UNCHANGED <<isLoading, selectedSymptoms, predCanSave, predCalls, historyDocs,
                   appVars, chatVars, vars>>

\* Lines 766-781: the parsed prediction is stored in predictionResult, and
\* the write of the history record is started if db, userId and appId are set.
PredStoreParsed ==
    /\ predictionResult' = ParsedResult
    /\ IF predCanSave
       THEN /\ predPc' = "writingHistory"
            /\ predLog' = predLog \o <<"parsed", "historyWrite">>
            /\ UNCHANGED isLoading
       ELSE PredFinally(<<"parsed">>)
    /\ UNCHANGED <<selectedSymptoms, predCanSave, predCalls, historyDocs,
                   appVars, chatVars, vars>>

\* response.json() resolves (line 759) with a body whose candidate text is
\* missing, is not JSON, or is JSON (lines 760-766).
PredBodyResolves ==
    /\ predPc = "parsing"
    /\ \E text \in {"missing", "notJson", "json"} :
        CASE text = "missing" ->
                PredCatch(<<"noText">>, Message("Invalid response format from AI."))
          [] text = "notJson" ->
                PredCatch(<<"unparseable">>, Message("Unexpected token"))
          [] OTHER -> PredStoreParsed

\* response.json() rejects (the body is not JSON).
PredBodyRejects ==
    /\ predPc = "parsing"
    /\ PredCatch(<<"bodyFailed">>, Message("Unexpected end of JSON input"))

\* The write of the history record resolves (line 774); finally.
HistoryWriteResolves ==
    /\ predPc = "writingHistory"
    /\ historyDocs' = historyDocs + 1
    /\ PredFinally(<<"historyStored">>)
    /\ UNCHANGED <<selectedSymptoms, predictionResult, predCanSave, predCalls,
                   appVars, chatVars, vars>>

\* The write of the history record rejects: the catch of line 782 runs.
HistoryWriteRejects ==
    /\ predPc = "writingHistory"
    /\ PredCatch(<<"historyFailed">>, Message("Missing or insufficient permissions."))

----------------------------------------------------------------------------
(* Specifications of the application *)

\* App and DocBotPage.
ChatNext ==
    \/ AppInitialize
    \/ AuthStateChanged
    \/ AppUnmount
    \/ TypeMessage
    \/ SnapshotArrives
    \/ \E s \in Sends :
        \/ ClickSend(s)
        \/ PressEnter(s)
        \/ ClickSuggestion(s)
        \/ UserWriteResolves(s)
        \/ UserWriteRejects(s)
        \/ SendCallSettles(s)
        \/ SendBodyResolves(s)
        \/ SendBodyRejects(s)
        \/ AiWriteResolves(s)
        \/ AiWriteRejects(s)
        \/ ErrorWriteResolves(s)
        \/ ErrorWriteRejects(s)

ChatSpec == Init /\ [][ChatNext]_allVars

\* What handleSend call s awaits settles: the write of the user's message,
\* fetchWithBackoff, response.json(), the write of the reply.
SendSettles(s) ==
    \/ UserWriteResolves(s)
    \/ UserWriteRejects(s)
    \/ SendCallSettles(s)
    \/ SendBodyResolves(s)
    \/ SendBodyRejects(s)
    \/ AiWriteResolves(s)
    \/ AiWriteRejects(s)
    \/ ErrorWriteResolves(s)
    \/ ErrorWriteRejects(s)

\* ChatSpec, with every promise a handleSend call awaits settling in the end.
FairChatSpec == ChatSpec /\ \A s \in Sends : WF_allVars(SendSettles(s))

\* App and PredictionPage.
PredNext ==
    \/ AppInitialize
    \/ AuthStateChanged
    \/ AppUnmount
    \/ ToggleSymptom
    \/ ClearSymptoms
    \/ ClickPredict
    \/ PredCallSettles
    \/ PredBodyResolves
    \/ PredBodyRejects
    \/ HistoryWriteResolves
    \/ HistoryWriteRejects

PredSpec == Init /\ [][PredNext]_allVars

\* App with both pages: every entry point of the two flows, with the first
\* handleSend call and the handlePrediction calls running together.
AppNext ==
    \/ AppInitialize
    \/ AuthStateChanged
    \/ AppUnmount
    \/ TypeMessage
    \/ SnapshotArrives
    \/ ToggleSymptom
    \/ ClearSymptoms
    \/ ClickPredict
    \/ PredCallSettles
    \/ PredBodyResolves
    \/ PredBodyRejects
    \/ HistoryWriteResolves
    \/ HistoryWriteRejects
    \/ \E s \in {1} :
        \/ ClickSend(s)
        \/ PressEnter(s)
        \/ ClickSuggestion(s)
        \/ UserWriteResolves(s)
        \/ UserWriteRejects(s)
        \/ SendCallSettles(s)
        \/ SendBodyResolves(s)
        \/ SendBodyRejects(s)
        \/ AiWriteResolves(s)
        \/ AiWriteRejects(s)
        \/ ErrorWriteResolves(s)
        \/ ErrorWriteRejects(s)

AppSpec == Init /\ [][AppNext]_allVars

----------------------------------------------------------------------------
(* Vocabulary of the properties (independent of the definitions above) *)

IsSuccess(o) == o.kind = "Response" /\ o.status \in 200..299
IsTransient(o) == o.kind = "TypeError" \/ (o.kind = "Response" /\ o.status = 429)
IsFatal(o) == o.kind = "Response" /\ o.status \notin 200..299 /\ o.status # 429
AllTransient(outs) == \A k \in 1..Len(outs) : IsTransient(outs[k])

\* The error an attempt's failure is reported with.
ReasonOf(o) ==
    IF o.kind = "Response"
    THEN [kind |-> "Error", status |-> o.status, attempt |-> o.attempt]
    ELSE o

RECURSIVE Pow2(_)
Pow2(e) == IF e <= 0 THEN 1 ELSE 2 * Pow2(e - 1)

RECURSIVE SumSeq(_)
SumSeq(q) == IF q = << >> THEN 0 ELSE Head(q) + SumSeq(Tail(q))

\* Number of times event e occurs in a log, and where it first occurs
\* (0 if it does not).
Count(log, e) == Cardinality({k \in 1..Len(log) : log[k] = e})
Has(log, e) == Count(log, e) > 0
First(log, e) == IF Has(log, e) THEN CHOOSE k \in 1..Len(log) :
                     log[k] = e /\ \A j \in 1..(k - 1) : log[j] # e
                 ELSE 0
Ended(log) == Len(log) > 0 /\ log[Len(log)] \in {"fulfilled", "rejected"}
DocsOf(s, role) == {d \in chatDocs : d.send = s /\ d.role = role}
SendInProgress(s) == sendPc[s] \notin {"idle", "done"}

Started(inv) == pc[inv] # "idle"
Done(inv) == pc[inv] = "done"
Waiting(inv) == pc[inv] \in {"wait429", "waitCatch"}
StatusSeq(inv) == [k \in 1..Len(outcomes[inv]) |-> outcomes[inv][k].status]
KindSeq(inv) == [k \in 1..Len(outcomes[inv]) |-> outcomes[inv][k].kind]

TypeOK ==
    /\ pc \in [Invocations -> {"idle", "loop", "fetching", "wait429", "waitCatch", "done"}]
    /\ retries \in [Invocations -> RetryChoices]
    /\ i \in [Invocations -> 0..MaxRetries]
    /\ delay0 \in [Invocations -> DelayChoices \cup {0}]
    /\ requests \in [Invocations -> 0..MaxRetries]
    /\ \A inv \in Invocations :
        /\ Len(outcomes[inv]) \in {requests[inv], requests[inv] - 1}
        /\ result[inv].how \in {"pending", "returned", "raised", "undefined"}

----------------------------------------------------------------------------
(* Properties *)

\* C1: with a budget n >= 1 and every attempt failing transiently (a rejected
\* fetch or status 429, in any mix), exactly n requests are issued and then an
\* error is raised: nothing is raised before the n-th request has failed, the
\* call ends as soon as it has, and it ends by raising.
C1_ExactlyNAttemptsThenRaise ==
    \A inv \in Invocations :
        (Started(inv) /\ retries[inv] >= 1 /\ AllTransient(outcomes[inv])) =>
            /\ requests[inv] <= retries[inv]
            /\ (Len(outcomes[inv]) = retries[inv] <=> Done(inv))
            /\ (Done(inv) <=> result[inv].how = "raised")
            /\ (Done(inv) => requests[inv] = retries[inv])

C1_Witness ==
    \E inv \in Invocations :
        /\ Done(inv) /\ retries[inv] = 3 /\ requests[inv] = 3
        /\ StatusSeq(inv) = <<429, 0, 429>>
        /\ result[inv].how = "raised"

\* C2: a response whose status is neither a success nor 429, on any attempt k,
\* ends the call at once: an error is raised, k requests were issued, and no
\* wait follows the k-th (only the k-1 waits between the attempts were made).
C2_FatalStatusRaisesImmediately ==
    \A inv \in Invocations :
        \A k \in 1..Len(outcomes[inv]) :
            IsFatal(outcomes[inv][k]) =>
                /\ Done(inv)
                /\ result[inv].how = "raised"
                /\ requests[inv] = k
                /\ Len(waits[inv]) = k - 1

\* C3: if attempts 1..k-1 fail transiently and attempt k answers with a success
\* status, the call returns the response of attempt k and issues no request
\* after it.
C3_SuccessReturnsThatResponse ==
    \A inv \in Invocations :
        \A k \in 1..Len(outcomes[inv]) :
            (IsSuccess(outcomes[inv][k]) /\ AllTransient(SubSeq(outcomes[inv], 1, k - 1))) =>
                /\ Done(inv)
                /\ result[inv] = [how |-> "returned", value |-> outcomes[inv][k]]
                /\ result[inv].value.attempt = k
                /\ requests[inv] = k
                /\ Len(outcomes[inv]) = k

C3_Witness ==
    \E inv \in Invocations :
        /\ Done(inv) /\ retries[inv] = 3
        /\ StatusSeq(inv) = <<0, 429, 200>>
        /\ result[inv].how = "returned" /\ result[inv].value.attempt = 3

\* C4: there is exactly one wait between consecutive attempts, the wait before
\* attempt j+1 lasts initialDelay * 2^(j-1) whatever failure ended attempt j,
\* and the delay is doubled once per wait.  With initialDelay 1000 and answers
\* 429, 429, 200 the waits are 1000, 2000 and the third response is returned.
C4_OneWaitDoublingDelay ==
    \A inv \in Invocations :
        Started(inv) =>
            /\ \A j \in 1..Len(waits[inv]) : waits[inv][j] = delay0[inv] * Pow2(j - 1)
            /\ pc[inv] = "fetching" => Len(waits[inv]) = requests[inv] - 1
            /\ Waiting(inv) => Len(waits[inv]) = requests[inv]
            /\ Waiting(inv) => delay[inv] = delay0[inv] * Pow2(Len(waits[inv]) - 1)
            /\ ~Waiting(inv) => delay[inv] = delay0[inv] * Pow2(Len(waits[inv]))
            /\ (Done(inv) /\ delay0[inv] = 1000 /\ StatusSeq(inv) = <<429, 429, 200>>) =>
                /\ waits[inv] = <<1000, 2000>>
                /\ requests[inv] = 3
                /\ result[inv] = [how |-> "returned", value |-> outcomes[inv][3]]

C4_Witness ==
    /\ Done("chat") /\ delay0["chat"] = 1000
    /\ StatusSeq("chat") = <<429, 429, 200>>
    /\ waits["chat"] = <<1000, 2000>>
    /\ pc["prediction"] = "fetching" /\ delay0["prediction"] = 250
    /\ StatusSeq("prediction") = <<0, 500>>
    /\ waits["prediction"] = <<250, 500>>

\* C5: with a budget of 1 exactly one request is issued and no wait is made,
\* whatever the request's outcome: a success is returned, anything else (429,
\* another status, a rejected fetch) is raised after that single attempt.
C5_BudgetOneNeverRetries ==
    \A inv \in Invocations :
        (Started(inv) /\ retries[inv] = 1) =>
            /\ requests[inv] <= 1
            /\ waits[inv] = << >>
            /\ (Len(outcomes[inv]) = 1 <=> Done(inv))
            /\ Done(inv) =>
                /\ requests[inv] = 1
                /\ IF IsSuccess(outcomes[inv][1])
                   THEN result[inv] = [how |-> "returned", value |-> outcomes[inv][1]]
                   ELSE result[inv] = [how |-> "raised", value |-> ReasonOf(outcomes[inv][1])]

C5_Witness ==
    /\ retries["chat"] = 1 /\ Done("chat")
    /\ StatusSeq("chat") = <<429>> /\ result["chat"].how = "raised"
    /\ retries["prediction"] = 1 /\ Done("prediction")
    /\ KindSeq("prediction") = <<"TypeError">> /\ result["prediction"].how = "raised"

\* C6: with a budget n >= 1, whatever the attempts' outcomes, a call never has
\* more than n requests issued, and every call that was started ends.
C6_TerminatesWithinBudget ==
    /\ [](\A inv \in Invocations :
            (Started(inv) /\ retries[inv] >= 1) => requests[inv] <= retries[inv])
    /\ \A inv \in Invocations :
            (Started(inv) /\ retries[inv] >= 1) ~> Done(inv)

C6_Witness ==
    \A inv \in Invocations :
        Done(inv) /\ retries[inv] = MaxRetries /\ requests[inv] = MaxRetries

\* C7: with a budget n >= 1 a call ends in exactly one of two ways: it returns
\* a response with a success status, or it raises an error.  It never returns
\* a response that is not a success and never ends without a response.
C7_ReturnsSuccessOrRaises ==
    \A inv \in Invocations :
        (Started(inv) /\ retries[inv] >= 1) =>
            IF Done(inv)
            THEN \/ /\ result[inv].how = "returned"
                    /\ result[inv].value.kind = "Response"
                    /\ result[inv].value.status \in 200..299
                 \/ /\ result[inv].how = "raised"
                    /\ result[inv].value.kind \in {"Error", "TypeError"}
            ELSE result[inv].how = "pending"

C7_Witness ==
    /\ Done("chat") /\ retries["chat"] = 2 /\ result["chat"].how = "returned"
    /\ StatusSeq("chat") = <<429, 200>>
    /\ Done("prediction") /\ retries["prediction"] = 2 /\ result["prediction"].how = "raised"
    /\ StatusSeq("prediction") = <<429, 429>>

\* C8: interleaved invocations do not change one another: whenever an
\* invocation is suspended at a fetch or has ended, its loop index, delay,
\* number of requests, sequence of waits and result are those of the same call
\* run alone against the outcomes its own fetches settled with.
C8_InterleavingIsRunAlone ==
    \A inv \in Invocations :
        pc[inv] \in {"fetching", "done"} =>
            Locals(inv) = RunAlone(retries[inv], delay0[inv], outcomes[inv])

C8_Witness ==
    /\ pc["chat"] = "fetching" /\ waits["chat"] = <<1000, 2000>>
    /\ Waiting("prediction") /\ waits["prediction"] = <<250, 500>>
    /\ retries["chat"] = 3 /\ retries["prediction"] = 3

\* C9: while an invocation is suspended in its backoff wait, every other
\* invocation that has not ended can take its next step.
C9_WaitDoesNotBlockOthers ==
    \A waiter \in Invocations :
        \A other \in Invocations \ {waiter} :
            (Waiting(waiter) /\ ~Done(other)) => ENABLED (Call(other) \/ Step(other))

C9_Witness ==
    /\ pc["chat"] = "wait429"
    /\ pc["prediction"] = "loop" /\ i["prediction"] = 1 /\ retries["prediction"] = 2

\* C10: an error raised after the attempts are exhausted carries the reason of
\* the final attempt (the status of the last response, or the rejection of the
\* last fetch), never that of an earlier attempt.
C10_RaisedErrorIsLastReason ==
    \A inv \in Invocations :
        (result[inv].how = "raised" /\ requests[inv] = retries[inv]) =>
            /\ result[inv].value = ReasonOf(outcomes[inv][Len(outcomes[inv])])
            /\ result[inv].value.attempt = retries[inv]

C10_Witness ==
    \E inv \in Invocations :
        /\ result[inv].how = "raised" /\ retries[inv] = 3
        /\ StatusSeq(inv) = <<429, 0, 500>>
        /\ result[inv].value = [kind |-> "Error", status |-> 500, attempt |-> 3]

\* C11 (as stated): every error raised carries an `attempts` count equal to
\* the number of requests issued, besides the last failure reason.
C11_ErrorCarriesAttempts ==
    \A inv \in Invocations :
        result[inv].how = "raised" =>
            /\ "attempts" \in DOMAIN ErrorProperties(result[inv].value)
            /\ ErrorProperties(result[inv].value).attempts = requests[inv]

\* C11 (amended): every error raised carries the last failure reason in its
\* message and nothing else: it has no attempts count.  The number of
\* requests issued is the budget `retries` whenever an error is raised.
C11_ErrorCarriesReasonOnly ==
    \A inv \in Invocations :
        result[inv].how = "raised" =>
            /\ DOMAIN ErrorProperties(result[inv].value) = {"message"}
            /\ ErrorProperties(result[inv].value).message.status
                   = outcomes[inv][Len(outcomes[inv])].status
            /\ requests[inv] = retries[inv]

C11_Witness ==
    \E inv \in Invocations :
        /\ result[inv].how = "raised" /\ retries[inv] = 3 /\ requests[inv] = 3
        /\ StatusSeq(inv) = <<0, 500, 429>>
        /\ ErrorProperties(result[inv].value).message.status = 429

\* C12: the time spent in backoff waits is bounded by the policy alone: with
\* budget n >= 1 and initial delay d the waits of a call sum to at most
\* d * (2^(n-1) - 1), which is 3000 for n = 3 and d = 1000.
C12_TotalWaitBounded ==
    \A inv \in Invocations :
        (Started(inv) /\ retries[inv] >= 1) =>
            /\ SumSeq(waits[inv]) <= delay0[inv] * (Pow2(retries[inv] - 1) - 1)
            /\ (retries[inv] = 3 /\ delay0[inv] = 1000) => SumSeq(waits[inv]) <= 3000

C12_Witness ==
    \E inv \in Invocations :
        /\ retries[inv] = 3 /\ delay0[inv] = 1000
        /\ waits[inv] = <<1000, 2000>> /\ SumSeq(waits[inv]) = 3000
        /\ Done(inv)

\* C15: the two copies of fetchWithBackoff are equivalent: on the same budget,
\* initial delay and sequence of outcomes they issue the same number of
\* requests, make the same waits in the same order and end with the same
\* result.
C15_CopiesAgree ==
    \A inv \in Invocations :
        Started(inv) =>
            PredRunAlone(retries[inv], delay0[inv], outcomes[inv])
                = RunAlone(retries[inv], delay0[inv], outcomes[inv])

C15_Witness ==
    \E inv \in Invocations :
        /\ Done(inv) /\ retries[inv] = 3 /\ StatusSeq(inv) = <<500, 429, 0>>
        /\ PredRunAlone(3, delay0[inv], outcomes[inv]).result.how = "raised"
        /\ PredRunAlone(3, delay0[inv], outcomes[inv]).waits = <<delay0[inv], 2 * delay0[inv]>>
        /\ PredRunAlone(3, delay0[inv], outcomes[inv]).requests = 3

\* C17: no wait follows the final attempt and none precedes the first: a call
\* with budget n makes at most n-1 waits, and when attempt n fails the error
\* is raised with no wait started.
C17_NoWaitAfterFinalAttempt ==
    \A inv \in Invocations :
        Started(inv) =>
            /\ Len(waits[inv]) <= Len(outcomes[inv])
            /\ Len(outcomes[inv]) = 0 => waits[inv] = << >>
            /\ retries[inv] >= 1 => Len(waits[inv]) <= retries[inv] - 1
            /\ Waiting(inv) => Len(outcomes[inv]) < retries[inv]
            /\ (retries[inv] >= 1 /\ Len(outcomes[inv]) = retries[inv]) =>
                /\ Done(inv)
                /\ Len(waits[inv]) = retries[inv] - 1
                /\ ~IsSuccess(outcomes[inv][retries[inv]]) => result[inv].how = "raised"

C17_Witness ==
    \E inv \in Invocations :
        /\ Done(inv) /\ retries[inv] = 3 /\ StatusSeq(inv) = <<500, 0, 429>>
        /\ Len(waits[inv]) = 2 /\ result[inv].how = "raised"

\* C13: whenever fetchWithBackoff raises for a send, handleSend writes exactly
\* one fallback message with role 'ai_error' for that send and no message with
\* role 'ai', and the executor's error does not leave handleSend: the call
\* completes normally once the fallback is stored (it rejects only with the
\* error of the fallback write itself, when that write fails).
C13_RaiseWritesOneFallback ==
    \A s \in Sends :
        Has(sendLog[s], "raised") =>
            /\ Count(sendLog[s], "errorWrite") = 1
            /\ Count(sendLog[s], "aiWrite") = 0
            /\ DocsOf(s, "ai") = {}
            /\ Cardinality(DocsOf(s, "ai_error")) = Count(sendLog[s], "errorStored")
            /\ sendPc[s] \in {"writingError", "done"}
            /\ sendPc[s] = "done" =>
                \/ /\ sendLog[s][Len(sendLog[s])] = "fulfilled"
                   /\ Count(sendLog[s], "errorStored") = 1
                \/ /\ sendLog[s][Len(sendLog[s])] = "rejected"
                   /\ Has(sendLog[s], "errorFailed")

C13_Witness ==
    \E s \in Sends :
        /\ sendLog[s] = <<"userWrite", "userStored", "request", "raised",
                          "errorWrite", "errorStored", "fulfilled">>
        /\ DocsOf(s, "ai_error") = {[send |-> s, role |-> "ai_error"]}

\* C14: in handlePrediction, when fetchWithBackoff raises, or the body has no
\* candidate text, or the text is not JSON, the call ends with predictionResult
\* an error object, no history record is written for it and the parsed
\* prediction is never stored for display.
C14_FailureEndsInErrorState ==
    (\/ Has(predLog, "raised")
     \/ Has(predLog, "noText")
     \/ Has(predLog, "unparseable")) =>
        /\ predPc = "done"
        /\ predictionResult.kind = "error"
        /\ ~isLoading
        /\ ~Has(predLog, "parsed")
        /\ ~Has(predLog, "historyWrite")
        /\ ~Has(predLog, "historyStored")

C14_Witness ==
    /\ predLog = <<"request", "returned", "unparseable", "error">>
    /\ predictionResult.kind = "error"
    /\ predCanSave

\* C16: the readiness flag gates the flows: whenever a handleSend call has
\* passed its guard, a chat message is stored, or a handlePrediction call has
\* issued its request, authReady is true -- whichever entry point was used.
C16_NothingIssuedBeforeReady ==
    /\ (\E s \in Sends : sendPc[s] # "idle") => authReady
    /\ chatDocs # {} => authReady
    /\ Has(predLog, "request") => authReady
    /\ historyDocs > 0 => authReady
    /\ ~authReady => \A s \in Sends :
            ~ENABLED (ClickSend(s) \/ PressEnter(s) \/ ClickSuggestion(s) \/ ClickPredict)

C16_Witness ==
    /\ authReady
    /\ sendPc[1] = "fetching"
    /\ sendLog[1] = <<"userWrite", "userStored", "request">>
    /\ predPc = "fetching"

\* C18: the steps of a send are ordered: the user's message is stored before
\* the send's first API request is issued, a reply record ('ai', 'ai_error')
\* is written only after the executor has returned or raised, and no reply
\* record of a send is in the collection without its user record.
C18_SendStepsOrdered ==
    \A s \in Sends :
        /\ Has(sendLog[s], "request") =>
            /\ Has(sendLog[s], "userStored")
            /\ First(sendLog[s], "userStored") < First(sendLog[s], "request")
        /\ (Has(sendLog[s], "aiWrite") \/ Has(sendLog[s], "errorWrite")) =>
            /\ Has(sendLog[s], "returned") \/ Has(sendLog[s], "raised")
            /\ Has(sendLog[s], "aiWrite") =>
                First(sendLog[s], "returned") < First(sendLog[s], "aiWrite")
            /\ Has(sendLog[s], "errorWrite") =>
                \/ /\ Has(sendLog[s], "returned")
                   /\ First(sendLog[s], "returned") < First(sendLog[s], "errorWrite")
                \/ /\ Has(sendLog[s], "raised")
                   /\ First(sendLog[s], "raised") < First(sendLog[s], "errorWrite")
        /\ (DocsOf(s, "ai") # {} \/ DocsOf(s, "ai_error") # {}) => DocsOf(s, "user") # {}

C18_Witness ==
    /\ sendLog[1] = <<"userWrite", "userStored", "request", "returned",
                      "aiWrite", "aiStored", "fulfilled">>
    /\ sendLog[2] = <<"userWrite", "userStored", "request", "raised",
                      "errorWrite", "errorStored", "fulfilled">>

\* C19: at most one chat send is in progress at a time: two handleSend calls
\* never have an API request outstanding together.
C19_OneSendAtATime ==
    \A s, t \in Sends :
        (s # t) => ~(sendPc[s] = "fetching" /\ sendPc[t] = "fetching")

\* C20: once the executor has returned and the body has been parsed and
\* stored, the parsed prediction is the value of predictionResult when the
\* call completes, also when the write of the history record fails.
C20_ParsedPredictionSurvives ==
    (predPc = "done" /\ Has(predLog, "parsed")) => predictionResult.kind = "parsed"

\* The handleSend calls that have set isTyping and not yet run their finally.
Typing(s) == sendPc[s] \in {"fetching", "parsing", "writingAi", "writingError"}

\* C21: every handleSend call that has set isTyping to true reaches its end,
\* and the step that ends it sets isTyping to false, on every path (success,
\* executor error, unparseable body, failed 'ai' write, failed 'ai_error'
\* write); isTyping is never true when no such call is still running.
C21_TypingAlwaysReset ==
    /\ [](isTyping => \E s \in Sends : Typing(s))
    /\ [][\A s \in Sends :
            (Typing(s) /\ sendPc'[s] = "done") => ~isTyping']_allVars
    /\ \A s \in Sends : Typing(s) ~> (sendPc[s] = "done")

C21_Witness ==
    /\ sendLog[1] = <<"userWrite", "userStored", "request", "returned", "aiWrite",
                      "aiFailed", "errorWrite", "errorFailed", "rejected">>
    /\ sendLog[2] = <<"userWrite", "userStored", "request", "returned",
                      "parseFailed", "errorWrite", "errorStored", "fulfilled">>
    /\ ~isTyping

\* C23: when the write of the user's message fails, the send ends there: no
\* API request is issued for it, no reply record is written, and the failing
\* step leaves isTyping, the collection and the displayed history as they
\* were; all the send has changed is that currentMessage was cleared.
C23_FailedUserWriteEndsSend ==
    /\ [](\A s \in Sends : Has(sendLog[s], "userFailed") =>
            /\ sendLog[s] = <<"userWrite", "userFailed", "rejected">>
            /\ sendPc[s] = "done"
            /\ \A role \in {"user", "ai", "ai_error"} : DocsOf(s, role) = {})
    /\ [][\A s \in Sends :
            (sendPc[s] = "writingUser" /\ Has(sendLog'[s], "userFailed")) =>
                UNCHANGED <<currentMessage, isTyping, chatHistory, chatDocs>>]_allVars
    /\ [][\A s \in Sends :
            (sendPc[s] = "idle" /\ sendPc'[s] # "idle") =>
                /\ currentMessage' = ""
                /\ UNCHANGED <<isTyping, chatHistory, chatDocs>>]_allVars

C23_Witness ==
    /\ sendLog[1] = <<"userWrite", "userFailed", "rejected">>
    /\ sendPc[2] = "idle"
    /\ ~isTyping /\ chatDocs = {} /\ currentMessage = ""

\* A handlePrediction call started with symptoms selected has not ended.
PredInProgress == predPc \in {"fetching", "parsing", "writingHistory"}

\* C22: isLoading is true exactly while a prediction started with symptoms
\* selected is in progress: it is set before the request is issued and is
\* false when the call has ended, on every path; and once a call has ended
\* predictionResult is not null: it is a parsed prediction or an error object.
C22_LoadingExactlyWhileInProgress ==
    /\ isLoading <=> PredInProgress
    /\ Has(predLog, "request") /\ ~PredInProgress => predPc = "done"
    /\ predPc = "done" =>
        /\ ~isLoading
        /\ predictionResult.kind \in {"parsed", "error"}
        /\ predictionResult.kind = "parsed" => Has(predLog, "parsed")
        /\ predictionResult.kind = "error" => Has(predLog, "error")

C22_Witness ==
    /\ predCalls = 2
    /\ predLog = <<"request", "returned", "parsed", "historyWrite", "historyFailed", "error">>
    /\ ~isLoading
    /\ predictionResult.kind = "error"

\* C24: the write of a history record is started only after the executor has
\* returned and the body has parsed, and only when db, userId and appId are
\* all set for the call; at most one record is written per call; when one of
\* the three is missing the prediction is displayed and nothing is written.
C24_HistoryOnlyAfterParsedAndConfigured ==
    /\ Has(predLog, "historyWrite") =>
        /\ predCanSave
        /\ Has(predLog, "returned") /\ Has(predLog, "parsed")
        /\ First(predLog, "returned") < First(predLog, "parsed")
        /\ First(predLog, "parsed") < First(predLog, "historyWrite")
    /\ Count(predLog, "historyWrite") <= 1
    /\ Count(predLog, "historyStored") <= Count(predLog, "historyWrite")
    /\ historyDocs <= predCalls
    /\ (Has(predLog, "request") /\ ~predCanSave) =>
        /\ ~Has(predLog, "historyWrite")
        /\ Has(predLog, "parsed") =>
            /\ predPc = "done"
            /\ predictionResult.kind = "parsed"
            /\ ~isLoading

C24_Witness ==
    /\ ~predCanSave
    /\ predLog = <<"request", "returned", "parsed">>
    /\ predictionResult.kind = "parsed"
    /\ historyDocs = 1

\* No handleSend call has passed its guard and no handlePrediction call has
\* been made.
NothingStarted ==
    /\ \A s \in Sends : sendPc[s] = "idle" /\ sendLog[s] = << >>
    /\ predPc = "idle" /\ predLog = << >> /\ predCalls = 0
    /\ chatDocs = {} /\ historyDocs = 0

\* C25: when the configuration is missing or empty, or lacks apiKey or appId,
\* the effect returns before creating a handle: from then on authReady is
\* false and db, auth, appId and userId are null in every state, and no chat
\* send and no prediction is ever started.
C25_MissingConfigHangs ==
    /\ [](appPhase = "hung" =>
            /\ ~authReady
            /\ db = Null /\ auth = Null /\ appId = Null /\ userId = Null
            /\ NothingStarted
            /\ ~ENABLED ClickPredict
            /\ \A s \in Sends :
                ~ENABLED (ClickSend(s) \/ PressEnter(s) \/ ClickSuggestion(s)))
    /\ [][appPhase = "hung" => appPhase' = "hung"]_allVars
    /\ [](appPhase = "start" =>
            /\ ENABLED (AppInitialize /\ appPhase' = "hung")
            /\ ~ENABLED (AppInitialize /\ appPhase' = "hung" /\ authReady'))

C25_Witness ==
    /\ appPhase = "hung"
    /\ ~isMounted
    /\ selectedSymptoms # {}
    /\ ~authReady

\* C26: when the initialization throws, authReady is set and the application
\* runs without persistence (no handle, no user); and whenever the auth-state
\* callback runs while mounted it leaves authReady true, with userId the
\* user's id or null.
C26_ReadyAfterFailureOrCallback ==
    /\ appPhase = "failed" =>
        /\ authReady
        /\ db = Null /\ auth = Null /\ appId = Null /\ userId = Null
    /\ appPhase = "start" =>
        /\ ENABLED (AppInitialize /\ appPhase' = "failed")
        /\ ~ENABLED (AppInitialize /\ appPhase' = "failed" /\ ~authReady')
    /\ (appPhase = "listening" /\ isMounted) =>
        /\ \A user \in {Null, "uid"} :
            ENABLED (AuthStateChanged /\ userId' = user /\ authReady')
        /\ ~ENABLED (AuthStateChanged /\ ~authReady')
    /\ authReady => appPhase \in {"failed", "listening"}

C26_Witness ==
    /\ appPhase = "listening"
    /\ isMounted
    /\ authReady
    /\ userId = Null
    /\ predLog = <<"request", "returned", "parsed">>

\* C27: in every state, a non-null userId implies that authReady is true and
\* that db and appId are non-null; and authReady, once true, is true in every
\* later state, whatever auth-state change or unmount follows.
C27_UserImpliesReadyAndMonotone ==
    /\ [](userId # Null => authReady /\ db # Null /\ appId # Null)
    /\ [][authReady => authReady']_allVars

C27_Witness ==
    /\ userId = "uid"
    /\ authReady
    /\ ~isMounted
    /\ sendPc[1] = "done"

====
